---- MODULE Spec2Model ----
(***************************************************************************)
(* HRMoodManager: the burnout score computation of the backend,            *)
(* analyze_work_patterns(file_path) of backend/burnout_analysis.py, as a   *)
(* state machine.  An invocation reads the CSV at file_path into a data    *)
(* frame, walks its rows in order, and stores max(0, min(100, score)) in a *)
(* fresh dict under the row's name, where                                  *)
(*   score = 100 - (idle*2 + (5 - meetings)*3 + (3 - logins)*4).           *)
(* Several callers may be inside the function at once.                     *)
(*                                                                         *)
(* The front end is modelled next to it: the mood check-in modals          *)
(* (components/*Modal.tsx), NotificationService and WebSocketService       *)
(* (services/realtime.ts), fetchWithRetry and the response cache of        *)
(* EnhancedApiService (services/enhancedApi.ts).                           *)
(* Each part has its own variables and its own specification; the steps    *)
(* of one part leave the others unchanged.                                 *)
(***************************************************************************)
EXTENDS Integers, Sequences, FiniteSets, TLC

VARIABLES
    files,           \* the CSV tables on disk: path -> sequence of rows
    pc,              \* per caller: "idle", "loop", "returned" or "raised"
    file_path,       \* per caller: the argument of the running invocation
    df,              \* per caller: the data frame read_csv returned
    idx,             \* per caller: position of iterrows() in df (1-based)
    burnout_scores,  \* per caller: the dict being filled
    result           \* per caller: what the last invocation gave its caller

\* The front end: one mood check-in modal of the page.
VARIABLES
    modal,           \* the modal's React state, its pending promises and timers
    mediaRequests,   \* the getUserMedia requests made so far
    backend          \* the requests sent to the backend so far

modalVars == <<modal, mediaRequests, backend>>

\* The front end: NotificationService of services/realtime.ts.
VARIABLES
    notifications,   \* this.notifications, newest first
    unreadCount      \* this.unreadCount

notifVars == <<notifications, unreadCount>>

\* The front end: WebSocketService of services/realtime.ts.
VARIABLES
    socket,             \* this.socket: the id of a WebSocket, 0 for null
    sockets,            \* the WebSockets not yet closed: id -> state, closure
    isConnected,        \* this.isConnected
    reconnectAttempts,  \* this.reconnectAttempts
    messageQueue,       \* this.messageQueue
    timers,             \* reconnect timers armed and not yet fired
    created,            \* number of WebSockets constructed so far
    hung,               \* the page is stuck in a loop that never ends
    caller,             \* what the caller last asked for: connect / disconnect
    scheduled,          \* reconnects scheduled since the last open
    step                \* what the last step sent, emitted and scheduled

wsVars == <<socket, sockets, isConnected, reconnectAttempts, messageQueue,
            timers, created, hung, caller, scheduled, step>>

\* The front end: fetchWithRetry of services/enhancedApi.ts.
VARIABLES
    calls            \* per call of fetchWithRetry: its position and history

fetchVars == <<calls>>

\* The front end: the response cache of EnhancedApiService.
VARIABLES
    cache,           \* this.cache: key -> {data, timestamp, ttl}, or no entry
    now,             \* Date.now(), in milliseconds since the page loaded
    inFlight,        \* per getter: calls waiting at await fetchWithRetry
    got              \* what the last step gave its caller, and from where

cacheVars == <<cache, now, inFlight, got>>

frontVars == <<modalVars, notifVars, wsVars, fetchVars, cacheVars>>

vars == <<files, pc, file_path, df, idx, burnout_scores, result, frontVars>>

Modals == {"ConsentMoodModal", "MoodCheckInModal", "CheckInModal"}

\* The state a modal is constructed with (useState initial values), closed.
ModalClosed(c) ==
    [component |-> c, isOpen |-> FALSE, showConsent |-> TRUE,
     hasConsent |-> FALSE, isAnalyzing |-> FALSE, result |-> FALSE,
     isWebcamActive |-> FALSE, error |-> FALSE,
     media |-> 0, detectTimers |-> 0, retryTimers |-> 0,
     moodCalls |-> 0, suggestionCalls |-> 0]

InitModal ==
    /\ mediaRequests = {}
    /\ backend = {}

\* NotificationService as constructed.
InitNotifications ==
    /\ notifications = <<>>
    /\ unreadCount = 0

NoUser == "null"

\* Nothing sent, emitted or scheduled.
Quiet(kind) == [kind |-> kind, sent |-> <<>>, emitted |-> {}, delay |-> 0]

\* WebSocketService as constructed.
InitWebSocket ==
    /\ socket = 0
    /\ sockets = <<>>
    /\ isConnected = FALSE
    /\ reconnectAttempts = 0
    /\ messageQueue = <<>>
    /\ timers = 0
    /\ created = 0
    /\ hung = FALSE
    /\ caller = [disconnected |-> FALSE, userId |-> NoUser, since |-> 0]
    /\ scheduled = 0
    /\ step = Quiet("new")

FetchCalls == {"k1", "k2"}

\* A call of fetchWithRetry not yet made.
NotCalled ==
    [pc |-> "idle", i |-> 0, attempts |-> 0, waits |-> <<>>, value |-> 0,
     error |-> [attempt |-> 0, kind |-> "none"], firstOk |-> 0]

InitFetch == calls = [k \in FetchCalls |-> NotCalled]

Getters == {"getBurnoutScores", "getTrends", "getTeamAnalytics"}

\* this.cache.get(key) giving undefined.
NoEntry == [data |-> "undefined", timestamp |-> 0, ttl |-> 0]

\* A step that returns nothing to a caller of a getter.
Nothing(kind) ==
    [kind |-> kind, getter |-> "none", data |-> "undefined",
     found |-> FALSE, age |-> 0]

\* EnhancedApiService as constructed: new Map(), no call made.
InitCache ==
    /\ cache = [g \in Getters |-> NoEntry]
    /\ now = 0
    /\ inFlight = [g \in Getters |-> 0]
    /\ got = Nothing("new")

\* The front end as the page loads it, before any user action.
InitFrontEnd ==
    /\ modal = ModalClosed("ConsentMoodModal")
    /\ InitModal
    /\ InitNotifications
    /\ InitWebSocket
    /\ InitFetch
    /\ InitCache

Callers == {"c1", "c2"}
Paths == {"f1", "f2"}
Names == {"A", "B"}

(***************************************************************************)
(* Cell values.  A cell of the table is a number, a float NaN (an empty    *)
(* CSV field) or a string (a non-numeric field).  "err" is the TypeError   *)
(* an operator raises.                                                     *)
(***************************************************************************)
Num(n) == [kind |-> "num", v |-> n]
NaN == [kind |-> "nan", v |-> 0]
Str == [kind |-> "str", v |-> 0]
TypeError == [kind |-> "err", v |-> 0]

\* x * k for a positive int k: a number, NaN stays NaN, a str is repeated.
PyMul(x, k) ==
    IF x.kind = "num" THEN Num(x.v * k) ELSE x

\* x + y: str + number and number + str raise, NaN absorbs.
PyAdd(x, y) ==
    IF x.kind = "err" \/ y.kind = "err" THEN TypeError
    ELSE IF x.kind = "str" \/ y.kind = "str" THEN TypeError
    ELSE IF x.kind = "nan" \/ y.kind = "nan" THEN NaN
    ELSE Num(x.v + y.v)

\* k - x for an int k: int - str raises, NaN absorbs.
PySubFrom(k, x) ==
    IF x.kind = "err" \/ x.kind = "str" THEN TypeError
    ELSE IF x.kind = "nan" THEN NaN
    ELSE Num(k - x.v)

\* x < y of two non-error values: every comparison with NaN is false.
PyLess(x, y) ==
    x.kind = "num" /\ y.kind = "num" /\ x.v < y.v

\* The builtin min(a, b): b when b < a, else a.
PyMin(a, b) == IF PyLess(b, a) THEN b ELSE a

\* The builtin max(a, b): b when b > a, else a.
PyMax(a, b) == IF PyLess(a, b) THEN b ELSE a

(***************************************************************************)
(* Dicts: functions from a finite set of names.                            *)
(***************************************************************************)
EmptyDict == [n \in {} |-> NaN]

\* An assignment that keeps the entry a key already has.
PutIfAbsent(d, k, v) ==
    [n \in (DOMAIN d) \cup {k} |-> IF n \in DOMAIN d THEN d[n] ELSE v]

\* d[k] = v of a dict: k is added, or its entry overwritten.
Put(d, k, v) ==
    [n \in (DOMAIN d) \cup {k} |-> IF n = k THEN v ELSE d[n]]

(***************************************************************************)
(* pd.read_csv: the rows of the file, each column typed as a whole.  A     *)
(* column holding one non-numeric field is read as strings throughout, so  *)
(* its numeric fields arrive as str; an empty field arrives as NaN.        *)
(***************************************************************************)
Columns == {"idle_time", "meetings_attended", "login_count"}

HasStr(table, col) ==
    \E i \in 1..Len(table) : table[i][col].kind = "str"

read_csv(table) ==
    [i \in 1..Len(table) |->
        [col \in DOMAIN table[i] |->
            IF col \in Columns /\ table[i][col].kind = "num" /\ HasStr(table, col)
            THEN Str
            ELSE table[i][col]]]

(***************************************************************************)
(* The loop body.                                                          *)
(***************************************************************************)
\* The score with each shortfall floored at zero and the weights 1, 2, 3.
RowScoreFloored(row) ==
    LET idle == row["idle_time"]
        meetings == row["meetings_attended"]
        logins == row["login_count"]
    IN PySubFrom(100,
           PyAdd(PyAdd(PyMul(idle, 1),
                       PyMul(PyMax(Num(0), PySubFrom(5, meetings)), 2)),
                 PyMul(PyMax(Num(0), PySubFrom(3, logins)), 3)))

\* The score with the meetings term taken as meetings - 5.
RowScoreMeetingsSwapped(row) ==
    LET idle == row["idle_time"]
        meetings == row["meetings_attended"]
        logins == row["login_count"]
    IN PySubFrom(100,
           PyAdd(PyAdd(PyMul(idle, 2), PyMul(PyAdd(meetings, Num(-5)), 3)),
                 PyMul(PySubFrom(3, logins), 4)))

\* The score with the idle term subtracted inside the parenthesis.
RowScoreIdleSwapped(row) ==
    LET idle == row["idle_time"]
        meetings == row["meetings_attended"]
        logins == row["login_count"]
    IN PySubFrom(100,
           PyAdd(PyAdd(PyMul(idle, -2), PyMul(PySubFrom(5, meetings), 3)),
                 PyMul(PySubFrom(3, logins), 4)))

\* score = 100 - (idle * 2 + (5 - meetings) * 3 + (3 - logins) * 4)
RowScore(row) ==
    LET idle == row["idle_time"]
        meetings == row["meetings_attended"]
        logins == row["login_count"]
    IN PySubFrom(100,
           PyAdd(PyAdd(PyMul(idle, 2), PyMul(PySubFrom(5, meetings), 3)),
                 PyMul(PySubFrom(3, logins), 4)))

\* The clamp without its lower bound.
ClampNoFloor(score) == PyMin(Num(100), score)

\* max(0, min(100, score))
Clamp(score) == PyMax(Num(0), PyMin(Num(100), score))

\* The assignment landing in one dict that every frame shares.
StoreSubscrShared(c, name, v) ==
    [d \in Callers |-> Put(burnout_scores[d], name, v)]

\* burnout_scores[row['name']] = ... in the frame of caller c.
StoreSubscr(c, name, v) ==
    [burnout_scores EXCEPT ![c] = Put(@, name, v)]

NoResult == [kind |-> "none", value |-> EmptyDict]
Returned(d) == [kind |-> "dict", value |-> d]
Raised == [kind |-> "exc", value |-> EmptyDict]

\* The dict of the caller's previous invocation used again.
ReusedDict(c) == result[c].value

\* burnout_scores = {} : every invocation starts from a dict of its own.
NewDict(c) == EmptyDict

\* The loop variable stuck on the first row.
FirstRow(c) == df[c][1]

\* for _, row in df.iterrows(): the row of the current iteration.
CurrentRow(c) == df[c][idx[c]]

\* The body writing the score back into the row it was computed from.
RowsWithScore(c) ==
    [df[c] EXCEPT ![idx[c]]["idle_time"] = Clamp(RowScore(df[c][idx[c]]))]

\* The body only reads row[...]: the data frame after an iteration.
RowsAfterIteration(c) == df[c]

(***************************************************************************)
(* The steps of an invocation by caller c.                                 *)
(***************************************************************************)
\* Entry: df = pd.read_csv(file_path); burnout_scores = {}.
Call(c, p) ==
    /\ pc[c] # "loop"
    /\ pc' = [pc EXCEPT ![c] = "loop"]
    /\ file_path' = [file_path EXCEPT ![c] = p]
    /\ df' = [df EXCEPT ![c] = read_csv(files[p])]
    /\ idx' = [idx EXCEPT ![c] = 1]
    /\ burnout_scores' = [burnout_scores EXCEPT ![c] = NewDict(c)]
    /\ UNCHANGED <<files, result, frontVars>>

\* One iteration of for _, row in df.iterrows(): the row is scored and
\* stored, or the arithmetic raises and the exception leaves the function.
Iterate(c) ==
    /\ pc[c] = "loop"
    /\ idx[c] <= Len(df[c])
    /\ LET row == CurrentRow(c)
           score == RowScore(row)
       IN IF score.kind = "err"
          THEN /\ pc' = [pc EXCEPT ![c] = "raised"]
               /\ result' = [result EXCEPT ![c] = Raised]
               /\ df' = [df EXCEPT ![c] = <<>>]
               /\ idx' = [idx EXCEPT ![c] = 1]
               /\ burnout_scores' = [burnout_scores EXCEPT ![c] = EmptyDict]
          ELSE /\ burnout_scores' = StoreSubscr(c, row["name"], Clamp(score))
               /\ idx' = [idx EXCEPT ![c] = @ + 1]
               /\ df' = [df EXCEPT ![c] = RowsAfterIteration(c)]
               /\ UNCHANGED <<pc, result>>
    /\ UNCHANGED <<files, file_path, frontVars>>

\* The iterator is exhausted: return burnout_scores.
Return(c) ==
    /\ pc[c] = "loop"
    /\ idx[c] > Len(df[c])
    /\ pc' = [pc EXCEPT ![c] = "returned"]
    /\ result' = [result EXCEPT ![c] = Returned(burnout_scores[c])]
    /\ df' = [df EXCEPT ![c] = <<>>]
    /\ idx' = [idx EXCEPT ![c] = 1]
    /\ burnout_scores' = [burnout_scores EXCEPT ![c] = EmptyDict]
    /\ UNCHANGED <<files, file_path, frontVars>>

\* What an invocation running alone makes of a data frame, from row i on.
RECURSIVE SoloFrom(_, _, _)
SoloFrom(frame, i, scores) ==
    IF i > Len(frame) THEN Returned(scores)
    ELSE LET score == RowScore(frame[i])
         IN IF score.kind = "err" THEN Raised
            ELSE SoloFrom(frame, i + 1, Put(scores, frame[i]["name"], Clamp(score)))

Solo(table) == SoloFrom(read_csv(table), 1, EmptyDict)

(***************************************************************************)
(* Inputs.                                                                 *)
(***************************************************************************)
Row(n, i, m, l) ==
    [name |-> n, idle_time |-> i, meetings_attended |-> m, login_count |-> l]

IdleStep == 20
MaxIdleSteps == 3
HugeIdle == 1000000
MaxMeetings == 8
MaxLogins == 4
MaxRows == 2

IdleValues == {-IdleStep, HugeIdle} \cup {k * IdleStep : k \in 0..MaxIdleSteps}
MeetingValues == 0..MaxMeetings
LoginValues == 0..MaxLogins

\* Every numeric record of one employee.
NumericRows(n) ==
    {Row(n, Num(i), Num(m), Num(l)) :
        i \in IdleValues, m \in MeetingValues, l \in LoginValues}

\* Two employees, every pair of numeric records.
PairBatches == {<<a, b>> : a \in NumericRows("A"), b \in NumericRows("B")}

TypeOK ==
    /\ pc \in [Callers -> {"idle", "loop", "returned", "raised"}]
    /\ file_path \in [Callers -> Paths]
    /\ \A c \in Callers : idx[c] \in 1..(Len(df[c]) + 1)

InitFrames ==
    /\ pc = [c \in Callers |-> "idle"]
    /\ file_path = [c \in Callers |-> "f1"]
    /\ df = [c \in Callers |-> <<>>]
    /\ idx = [c \in Callers |-> 1]
    /\ burnout_scores = [c \in Callers |-> EmptyDict]
    /\ result = [c \in Callers |-> NoResult]

InitCallers ==
    /\ InitFrames
    /\ InitFrontEnd

\* The backend with no table and no invocation, under the front end.
BackendIdle ==
    /\ files = [p \in Paths |-> <<>>]
    /\ InitFrames

backendVars == <<files, pc, file_path, df, idx, burnout_scores, result>>

\* What the steps of one part of the program leave alone.
exceptModal == <<backendVars, notifVars, wsVars, fetchVars, cacheVars>>
exceptNotifications == <<backendVars, modalVars, wsVars, fetchVars, cacheVars>>
exceptWebSocket == <<backendVars, modalVars, notifVars, fetchVars, cacheVars>>
exceptFetch == <<backendVars, modalVars, notifVars, wsVars, cacheVars>>
exceptCache == <<backendVars, modalVars, notifVars, wsVars, fetchVars>>

(***************************************************************************)
(* SpecScore: one caller scoring a table of two numeric records.           *)
(***************************************************************************)
InitScore ==
    /\ files \in {[p \in Paths |-> IF p = "f1" THEN b ELSE <<>>] : b \in PairBatches}
    /\ InitCallers

NextScore ==
    \/ Call("c1", "f1")
    \/ Iterate("c1")
    \/ Return("c1")

SpecScore == InitScore /\ [][NextScore]_vars

(***************************************************************************)
(* SpecCells: one caller scoring a table of up to MaxRows records whose    *)
(* fields may be empty (NaN) or non-numeric (str).                         *)
(***************************************************************************)
RECURSIVE SeqsUpTo(_, _)
SeqsUpTo(S, n) ==
    IF n = 0 THEN {<<>>}
    ELSE LET shorter == SeqsUpTo(S, n - 1)
         IN shorter \cup {Append(q, x) : q \in {t \in shorter : Len(t) = n - 1}, x \in S}

CellRows ==
    {Row(n, i, m, l) :
        n \in Names, i \in {Num(20), NaN, Str}, m \in {Num(0), NaN, Str},
        l \in {Num(0), NaN, Str}}

InitCells ==
    /\ files \in {[p \in Paths |-> IF p = "f1" THEN b ELSE <<>>] :
                    b \in SeqsUpTo(CellRows, MaxRows)}
    /\ InitCallers

SpecCells == InitCells /\ [][NextScore]_vars

(***************************************************************************)
(* SpecCallers: two callers, two files of up to MaxRows numeric records,   *)
(* any interleaving of the callers' steps, any number of invocations.      *)
(***************************************************************************)
SampleRows ==
    { Row("A", Num(20), Num(0), Num(0)),
      Row("A", Num(0), Num(5), Num(3)),
      Row("B", Num(40), Num(5), Num(3)) }

\* The tables of up to MaxRows sample records, no record written twice.
SampleTables ==
    {t \in SeqsUpTo(SampleRows, MaxRows) :
        \A i, j \in 1..Len(t) : i # j => t[i] # t[j]}

InitCallersSpec ==
    /\ files \in [Paths -> SampleTables]
    /\ InitCallers

NextCallers ==
    \E c \in Callers :
        \/ \E p \in Paths : Call(c, p)
        \/ Iterate(c)
        \/ Return(c)

SpecCallers == InitCallersSpec /\ [][NextCallers]_vars

(***************************************************************************)
(* Properties of the scores (SpecScore).                                   *)
(***************************************************************************)
Done(c) == pc[c] = "returned" /\ result[c].kind = "dict"
InputOf(c) == files[file_path[c]]
ScoreOf(c, n) == result[c].value[n].v

Max(a, b) == IF a > b THEN a ELSE b
Min(a, b) == IF a < b THEN a ELSE b

\* Rows i and j of caller c's input belong to different employees and agree
\* on the two named columns.
SameBut(c, i, j, col1, col2) ==
    /\ i \in 1..Len(InputOf(c)) /\ j \in 1..Len(InputOf(c))
    /\ InputOf(c)[i]["name"] # InputOf(c)[j]["name"]
    /\ InputOf(c)[i][col1] = InputOf(c)[j][col1]
    /\ InputOf(c)[i][col2] = InputOf(c)[j][col2]

\* C1: every score an invocation stores or returns is a number in 0..100,
\* whatever numeric inputs (negative, huge) the records hold.
C1_ScoreInBounds ==
    \A c \in Callers :
        /\ \A n \in DOMAIN burnout_scores[c] :
              /\ burnout_scores[c][n].kind = "num"
              /\ 0 <= burnout_scores[c][n].v /\ burnout_scores[c][n].v <= 100
        /\ \A n \in DOMAIN result[c].value :
              /\ result[c].value[n].kind = "num"
              /\ 0 <= result[c].value[n].v /\ result[c].value[n].v <= 100

\* A returned mapping in which a huge idle time was floored at 0 and a
\* negative idle time was capped at 100.
C1_Witness ==
    /\ Done("c1")
    /\ InputOf("c1")[1]["idle_time"].v = HugeIdle
    /\ InputOf("c1")[2]["idle_time"].v < 0
    /\ ScoreOf("c1", "A") = 0
    /\ ScoreOf("c1", "B") = 100

C7_MeetingsStrictBelowFloor ==
    \A c \in Callers :
        Done(c) =>
            \A i, j \in 1..Len(InputOf(c)) :
                LET a == InputOf(c)[i]
                    b == InputOf(c)[j]
                IN ( /\ SameBut(c, i, j, "idle_time", "login_count")
                     /\ a["meetings_attended"].v < 5
                     /\ b["meetings_attended"].v = a["meetings_attended"].v + 1 )
                   => ScoreOf(c, b["name"]) > ScoreOf(c, a["name"])

\* C7 amended: idle time and logins being equal, one more meeting from
\* below 5 never lowers the score, and strictly raises it unless the lower
\* score is already 100 or the higher one is still 0.
C7_MeetingsMonotoneBelowFloor ==
    \A c \in Callers :
        Done(c) =>
            \A i, j \in 1..Len(InputOf(c)) :
                LET a == InputOf(c)[i]
                    b == InputOf(c)[j]
                    sa == ScoreOf(c, a["name"])
                    sb == ScoreOf(c, b["name"])
                IN ( /\ SameBut(c, i, j, "idle_time", "login_count")
                     /\ a["meetings_attended"].v < 5
                     /\ b["meetings_attended"].v = a["meetings_attended"].v + 1 )
                   => /\ sb >= sa
                      /\ (sa # 100 /\ sb # 0) => sb > sa

\* Going from 3 to 4 meetings raised an unclamped score.
C7_Witness ==
    /\ Done("c1")
    /\ SameBut("c1", 1, 2, "idle_time", "login_count")
    /\ InputOf("c1")[1]["meetings_attended"].v = 3
    /\ InputOf("c1")[2]["meetings_attended"].v = 4
    /\ ScoreOf("c1", "A") > 0
    /\ ScoreOf("c1", "B") < 100
    /\ ScoreOf("c1", "B") > ScoreOf("c1", "A")

\* C8: meetings and logins being equal, the record with the larger idle
\* time never has the larger score.
C8_IdleNeverIncreases ==
    \A c \in Callers :
        Done(c) =>
            \A i, j \in 1..Len(InputOf(c)) :
                LET a == InputOf(c)[i]
                    b == InputOf(c)[j]
                IN ( /\ SameBut(c, i, j, "meetings_attended", "login_count")
                     /\ b["idle_time"].v > a["idle_time"].v )
                   => ScoreOf(c, b["name"]) <= ScoreOf(c, a["name"])

\* 20 more idle minutes lowered an unclamped score.
C8_Witness ==
    /\ Done("c1")
    /\ SameBut("c1", 1, 2, "meetings_attended", "login_count")
    /\ InputOf("c1")[1]["idle_time"].v = 0
    /\ InputOf("c1")[2]["idle_time"].v = 20
    /\ ScoreOf("c1", "B") < ScoreOf("c1", "A")
    /\ ScoreOf("c1", "B") > 0

(***************************************************************************)
(* Missing and non-numeric fields (SpecCells).                             *)
(***************************************************************************)
Finished(c) == pc[c] \in {"returned", "raised"}

BadCell(x) == x.kind \in {"nan", "str"}

HasBadRecord(table) ==
    \E i \in 1..Len(table) : \E col \in Columns : BadCell(table[i][col])

\* C4 as stated: an invocation on a batch holding a record with a missing
\* or non-numeric field ends in an error and returns no mapping.
C4_BadRecordFails ==
    \A c \in Callers :
        (Finished(c) /\ HasBadRecord(InputOf(c))) => result[c].kind = "exc"

(***************************************************************************)
(* Properties of the mapping and of concurrent callers (SpecCallers).      *)
(***************************************************************************)
NamesIn(table) == {table[i]["name"] : i \in 1..Len(table)}

\* The last row of the table that carries the name n.
LastIndex(table, n) ==
    CHOOSE i \in 1..Len(table) :
        /\ table[i]["name"] = n
        /\ \A j \in (i + 1)..Len(table) : table[j]["name"] # n

OwnRecord(table, n) == table[LastIndex(table, n)]

\* C5: a name that occurs several times in the batch has one entry in the
\* returned mapping, the score of the last record carrying it.
C5_DuplicateLastWins ==
    \A c \in Callers :
        Done(c) =>
            \A i, j \in 1..Len(InputOf(c)) :
                (i < j /\ InputOf(c)[i]["name"] = InputOf(c)[j]["name"]
                       /\ j = LastIndex(InputOf(c), InputOf(c)[j]["name"]))
                => /\ InputOf(c)[j]["name"] \in DOMAIN result[c].value
                   /\ result[c].value[InputOf(c)[j]["name"]]
                          = Clamp(RowScore(InputOf(c)[j]))

\* Low record then high record of A gave 100, the score of the second.
C5_Witness ==
    /\ Done("c1")
    /\ InputOf("c1") = << Row("A", Num(20), Num(0), Num(0)),
                          Row("A", Num(0), Num(5), Num(3)) >>
    /\ DOMAIN result["c1"].value = {"A"}
    /\ ScoreOf("c1", "A") = 100

\* C6: the keys of a returned mapping are exactly the names of the batch,
\* and two invocations whose batches give a name the same record give that
\* name the same score, whatever the other records are.
C6_KeysAndIndependence ==
    \A c, d \in Callers :
        (Done(c) /\ Done(d)) =>
            /\ DOMAIN result[c].value = NamesIn(InputOf(c))
            /\ \A n \in NamesIn(InputOf(c)) \cap NamesIn(InputOf(d)) :
                  OwnRecord(InputOf(c), n) = OwnRecord(InputOf(d), n)
                  => result[c].value[n] = result[d].value[n]

\* Two batches of two employees that share B's record and differ in A's:
\* two keys each, B scored alike, A scored differently.
C6_Witness ==
    /\ Done("c1") /\ Done("c2")
    /\ NamesIn(InputOf("c1")) = {"A", "B"}
    /\ DOMAIN result["c1"].value = {"A", "B"}
    /\ DOMAIN result["c2"].value = {"A", "B"}
    /\ OwnRecord(InputOf("c1"), "B") = OwnRecord(InputOf("c2"), "B")
    /\ OwnRecord(InputOf("c1"), "A") # OwnRecord(InputOf("c2"), "A")
    /\ ScoreOf("c1", "B") = ScoreOf("c2", "B")
    /\ ScoreOf("c1", "A") # ScoreOf("c2", "A")

\* C9: two completed invocations on identical batches hold identical
\* results, whatever either caller invoked before.
C9_Deterministic ==
    \A c, d \in Callers :
        (Finished(c) /\ Finished(d) /\ InputOf(c) = InputOf(d))
        => result[c] = result[d]

\* Two callers read equal two-row batches from different files and hold
\* the same two-entry mapping.
C9_Witness ==
    /\ Done("c1") /\ Done("c2")
    /\ file_path["c1"] # file_path["c2"]
    /\ InputOf("c1") = InputOf("c2")
    /\ Len(InputOf("c1")) = 2
    /\ result["c1"] = result["c2"]
    /\ DOMAIN result["c1"].value = {"A", "B"}

\* The parts of the state that belong to caller c.
Frame(c) == <<pc[c], file_path[c], df[c], idx[c], burnout_scores[c], result[c]>>

\* C10: under every interleaving a completed invocation holds what a solo
\* run on its input returns and a running one holds what a solo run would
\* hold at that row; and no step touches the frame of more than one caller
\* or the files.
C10_ConcurrentAsSolo ==
    /\ [](\A c \in Callers :
            /\ Finished(c) => result[c] = Solo(InputOf(c))
            /\ pc[c] = "loop" =>
                  SoloFrom(df[c], idx[c], burnout_scores[c]) = Solo(InputOf(c)))
    /\ [][ /\ files' = files
           /\ \A c, d \in Callers :
                 (Frame(c)' # Frame(c) /\ Frame(d)' # Frame(d)) => c = d ]_vars

\* Both callers are inside the loop at once, on different files, each
\* with a row already stored.
C10_Witness ==
    /\ pc["c1"] = "loop" /\ pc["c2"] = "loop"
    /\ idx["c1"] = 2 /\ idx["c2"] = 2
    /\ Len(df["c1"]) = 2 /\ Len(df["c2"]) = 2
    /\ file_path["c1"] # file_path["c2"]
    /\ burnout_scores["c1"] # burnout_scores["c2"]

\* C11: the files are never written, a running invocation's data frame
\* stays what read_csv made of its file, and the only step that changes
\* anything a caller can see is the one that hands it the result.
C11_NoSideEffects ==
    /\ [](\A c \in Callers : pc[c] = "loop" => df[c] = read_csv(InputOf(c)))
    /\ [][ /\ files' = files
           /\ \A c \in Callers :
                 result'[c] # result[c] => (pc[c] = "loop" /\ pc'[c] # "loop") ]_vars

\* An invocation has returned a two-entry mapping and its file still
\* holds the two records it was given.
C11_Witness ==
    /\ Done("c1")
    /\ Len(InputOf("c1")) = 2
    /\ DOMAIN result["c1"].value = {"A", "B"}
    /\ pc["c2"] = "loop" /\ idx["c2"] = 3
    /\ df["c2"] = InputOf("c2")

\* C12: an invocation on a batch without records ends by returning the
\* empty mapping, not in an error.
C12_EmptyBatch ==
    \A c \in Callers :
        (Finished(c) /\ InputOf(c) = <<>>)
        => (result[c].kind = "dict" /\ DOMAIN result[c].value = {})

\* An invocation on an empty batch returned the empty mapping after the
\* other caller had returned a non-empty one.
C12_Witness ==
    /\ Done("c1")
    /\ InputOf("c1") = <<>>
    /\ DOMAIN result["c1"].value = {}
    /\ Done("c2")
    /\ DOMAIN result["c2"].value # {}

(***************************************************************************)
(* The mood check-in modals: ConsentMoodModal, MoodCheckInModal and        *)
(* CheckInModal.  modal is the React state of the one the page shows;      *)
(* media counts getUserMedia promises not yet settled, detectTimers and    *)
(* retryTimers the armed setTimeout callbacks (none is ever cleared),      *)
(* moodCalls and suggestionCalls the backend requests awaiting a response. *)
(***************************************************************************)
MaxPending == 2

\* The start handlers still running: each is at its await, at its timer or
\* at one of its backend calls.
Pending ==
    modal.media + modal.detectTimers + modal.moodCalls + modal.suggestionCalls

IsCheckIn == modal.component = "CheckInModal"
IsConsentMood == modal.component = "ConsentMoodModal"

\* The handlers and the button reading hasConsent as if it were always set.
ConsentIgnored == TRUE

\* hasConsent as the start button and the start handler read it.
Consent == modal.hasConsent

\* The block holding the consent checkbox and the start button is rendered.
ShowsConsentScreen ==
    IF IsCheckIn THEN ~modal.result ELSE modal.showConsent

\* disabled={!hasConsent} ; CheckInModal: disabled={!hasConsent || isAnalyzing}
StartDisabled == ~Consent \/ (IsCheckIn /\ modal.isAnalyzing)

\* videoRef.current is set: the <video> element is rendered.
VideoMounted ==
    /\ modal.isOpen
    /\ IF IsCheckIn THEN ~modal.result /\ modal.isWebcamActive
       ELSE ~modal.showConsent

\* startWebcam up to its await: navigator.mediaDevices.getUserMedia(...).
getUserMedia(by) ==
    mediaRequests \cup
        {[component |-> modal.component, by |-> by, consent |-> modal.hasConsent]}

\* The parent renders the modal with isOpen = true.
Open ==
    /\ ~modal.isOpen
    /\ modal' = [modal EXCEPT !.isOpen = TRUE]
    /\ UNCHANGED <<mediaRequests, backend>>

\* onChange of the consent checkbox: setHasConsent(e.target.checked).
ToggleConsent ==
    /\ modal.isOpen
    /\ ShowsConsentScreen
    /\ modal' = [modal EXCEPT !.hasConsent = ~@]
    /\ UNCHANGED <<mediaRequests, backend>>

\* A click on the start button: handleStartDetection / handleAnalyzeMood up
\* to the await of startWebcam.
ClickStart ==
    /\ modal.isOpen
    /\ ShowsConsentScreen
    /\ ~StartDisabled
    /\ Consent
    /\ Pending < MaxPending
    /\ IF IsCheckIn /\ modal.isWebcamActive
       THEN /\ modal' = [modal EXCEPT !.isAnalyzing = TRUE, !.error = FALSE,
                                      !.detectTimers = @ + 1]
            /\ UNCHANGED mediaRequests
       ELSE /\ modal' = [modal EXCEPT !.isAnalyzing = TRUE, !.error = FALSE,
                                      !.showConsent = IF IsCheckIn THEN @ ELSE FALSE,
                                      !.media = @ + 1]
            /\ mediaRequests' = getUserMedia("start")
    /\ UNCHANGED backend

\* The getUserMedia promise settles (the user answers the permission
\* prompt); startWebcam finishes and the handler arms its timer.
MediaSettles(granted) ==
    /\ modal.media > 0
    /\ modal' = [modal EXCEPT
          !.media = @ - 1,
          !.detectTimers = @ + 1,
          !.isWebcamActive =
              IF granted /\ VideoMounted /\ ~IsConsentMood THEN TRUE ELSE @,
          !.error =
              IF ~granted THEN TRUE
              ELSE IF VideoMounted /\ modal.component # "MoodCheckInModal"
                   THEN FALSE ELSE @]
    /\ UNCHANGED <<mediaRequests, backend>>

\* axios.post(`${API_BASE_URL}/mood`, { name }).
getMood ==
    [endpoint |-> "/mood", carries |-> {"name"},
     open |-> modal.isOpen, detecting |-> ~modal.showConsent]

\* The analysis done in the browser, nothing sent.
NoRequests == {}

\* The callback of the start handler's setTimeout.
DetectRequests == IF IsConsentMood THEN {getMood} ELSE NoRequests

DetectTimerFires ==
    /\ modal.detectTimers > 0
    /\ backend' = backend \cup DetectRequests
    /\ IF IsConsentMood
       THEN modal' = [modal EXCEPT !.detectTimers = @ - 1, !.moodCalls = @ + 1]
       ELSE modal' = [modal EXCEPT !.detectTimers = @ - 1,
                                   !.result = TRUE, !.isAnalyzing = FALSE]
    /\ UNCHANGED mediaRequests

\* axios.post(`${API_BASE_URL}/hr-suggestion`, { name, burnout_score, mood }).
getHRSuggestion ==
    [endpoint |-> "/hr-suggestion", carries |-> {"name", "burnout_score", "mood"},
     open |-> modal.isOpen, detecting |-> ~modal.showConsent]

\* The /mood request returns or fails.
MoodResponds(ok) ==
    /\ modal.moodCalls > 0
    /\ IF ok
       THEN /\ modal' = [modal EXCEPT !.moodCalls = @ - 1, !.result = TRUE,
                                      !.suggestionCalls = @ + 1]
            /\ backend' = backend \cup {getHRSuggestion}
       ELSE /\ modal' = [modal EXCEPT !.moodCalls = @ - 1, !.error = TRUE,
                                      !.isAnalyzing = FALSE]
            /\ UNCHANGED backend
    /\ UNCHANGED mediaRequests

\* The /hr-suggestion request returns or fails: setIsAnalyzing(false).
SuggestionResponds ==
    /\ modal.suggestionCalls > 0
    /\ modal' = [modal EXCEPT !.suggestionCalls = @ - 1, !.isAnalyzing = FALSE]
    /\ UNCHANGED <<mediaRequests, backend>>

\* handleRetry of ConsentMoodModal and MoodCheckInModal.
Retry ==
    /\ modal.isOpen
    /\ ~IsCheckIn
    /\ ~modal.showConsent
    /\ modal.result
    /\ IsConsentMood => ~modal.isAnalyzing
    /\ modal.retryTimers < MaxPending
    /\ modal' = [modal EXCEPT !.result = FALSE, !.isAnalyzing = TRUE,
                              !.retryTimers = @ + 1]
    /\ UNCHANGED <<mediaRequests, backend>>

\* The callback of handleRetry's setTimeout: simulateMoodAnalysis.
RetryTimerFires ==
    /\ modal.retryTimers > 0
    /\ modal' = [modal EXCEPT !.retryTimers = @ - 1, !.result = TRUE,
                              !.isAnalyzing = FALSE]
    /\ UNCHANGED <<mediaRequests, backend>>

\* handleClose: stopWebcam, the state reset, onClose().
Close ==
    /\ modal.isOpen
    /\ modal' = [modal EXCEPT !.isOpen = FALSE, !.result = FALSE,
                              !.isAnalyzing = FALSE, !.hasConsent = FALSE,
                              !.showConsent = TRUE, !.error = FALSE,
                              !.isWebcamActive = FALSE]
    /\ UNCHANGED <<mediaRequests, backend>>

(***************************************************************************)
(* SpecModal: one of the three modals, any sequence of user actions,       *)
(* permission answers, timer callbacks and backend responses.              *)
(***************************************************************************)
InitModalSpec ==
    /\ BackendIdle
    /\ InitNotifications
    /\ InitWebSocket
    /\ InitFetch
    /\ InitCache
    /\ modal \in {ModalClosed(c) : c \in Modals}
    /\ InitModal

NextModal ==
    \/ Open /\ UNCHANGED exceptModal
    \/ ToggleConsent /\ UNCHANGED exceptModal
    \/ ClickStart /\ UNCHANGED exceptModal
    \/ \E granted \in BOOLEAN : MediaSettles(granted) /\ UNCHANGED exceptModal
    \/ DetectTimerFires /\ UNCHANGED exceptModal
    \/ \E ok \in BOOLEAN : MoodResponds(ok) /\ UNCHANGED exceptModal
    \/ SuggestionResponds /\ UNCHANGED exceptModal
    \/ Retry /\ UNCHANGED exceptModal
    \/ RetryTimerFires /\ UNCHANGED exceptModal
    \/ Close /\ UNCHANGED exceptModal

SpecModal == InitModalSpec /\ [][NextModal]_vars

\* C13: in each of the three modals every getUserMedia request is made by
\* the start action, taken while the consent checkbox is checked.
C13_WebcamOnlyWithConsent ==
    \A r \in mediaRequests : r.by = "start" /\ r.consent

\* CheckInModal has requested the webcam on a start with consent; the
\* start's timer is armed, the modal is open and the box is unchecked again.
C13_Witness ==
    /\ mediaRequests # {}
    /\ modal.isOpen /\ ~modal.hasConsent
    /\ modal.component = "CheckInModal"
    /\ modal.detectTimers > 0

\* C14: a ConsentMoodModal check-in sends the backend no request carrying
\* the employee's name, mood or score between the start of detection and
\* the closing of the modal.
C14_NothingTransmitted ==
    \A r \in backend :
        (r.open /\ r.detecting) => r.carries \cap {"name", "mood", "burnout_score"} = {}

(***************************************************************************)
(* NotificationService (services/realtime.ts).  A notification is kept as  *)
(* its id and its read flag; the list holds the newest first.              *)
(***************************************************************************)
maxNotifications == 100

MaxAdds == 102
MaxMarkId == 2
EarlyLen == 2

\* id: Date.now() + Math.random(): a value no notification of the list has.
FreshId == IF notifications = <<>> THEN 1 ELSE notifications[1].id + 1

\* What addNotification is passed: an object with or without a read field.
NotificationInputs ==
    {[fields |-> {}, read |-> FALSE], [fields |-> {"read"}, read |-> TRUE],
     [fields |-> {"read"}, read |-> FALSE]}

\* { id, timestamp, read: false, ...notification }
Enriched(notification) ==
    [id |-> FreshId,
     read |-> IF "read" \in notification.fields THEN notification.read ELSE FALSE]

\* slice(0, maxNotifications) when the list is longer than maxNotifications.
Latest(list) ==
    IF Len(list) > maxNotifications THEN SubSeq(list, 1, maxNotifications) ELSE list

addNotification(notification) ==
    /\ FreshId <= MaxAdds
    /\ notification.read => Len(notifications) < EarlyLen
    /\ LET enrichedNotification == Enriched(notification)
       IN /\ notifications' = Latest(<<enrichedNotification>> \o notifications)
          /\ unreadCount' = IF ~enrichedNotification.read THEN unreadCount + 1
                            ELSE unreadCount
    /\ UNCHANGED exceptNotifications

\* this.notifications.find(n => n.id === notificationId): 0 when none.
Find(notificationId) ==
    LET hits == {i \in 1..Len(notifications) : notifications[i].id = notificationId}
    IN IF hits = {} THEN 0 ELSE CHOOSE i \in hits : \A j \in hits : i <= j

markAsRead(notificationId) ==
    /\ LET i == Find(notificationId)
       IN IF i # 0 /\ ~notifications[i].read
          THEN /\ notifications' = [notifications EXCEPT ![i].read = TRUE]
               /\ unreadCount' = Max(0, unreadCount - 1)
          ELSE UNCHANGED <<notifications, unreadCount>>
    /\ UNCHANGED exceptNotifications

markAllAsRead ==
    /\ notifications' = [i \in 1..Len(notifications) |->
                            [notifications[i] EXCEPT !.read = TRUE]]
    /\ unreadCount' = 0
    /\ UNCHANGED exceptNotifications

clearAll ==
    /\ notifications' = <<>>
    /\ unreadCount' = 0
    /\ UNCHANGED exceptNotifications

(***************************************************************************)
(* SpecNotifications: any sequence of calls on one NotificationService.    *)
(***************************************************************************)
InitNotificationsSpec ==
    /\ BackendIdle
    /\ modal = ModalClosed("ConsentMoodModal")
    /\ InitModal
    /\ InitNotifications
    /\ InitWebSocket
    /\ InitFetch
    /\ InitCache

NextNotifications ==
    \/ \E notification \in NotificationInputs : addNotification(notification)
    \/ \E notificationId \in 1..MaxMarkId : markAsRead(notificationId)
    \/ markAllAsRead
    \/ clearAll

SpecNotifications == InitNotificationsSpec /\ [][NextNotifications]_vars

Unread == {i \in 1..Len(notifications) : ~notifications[i].read}

\* C15: after any sequence of addNotification, markAsRead, markAllAsRead and
\* clearAll calls, unreadCount is the number of notifications of the list
\* whose read flag is false.
C15_UnreadCountMatches == unreadCount = Cardinality(Unread)

(***************************************************************************)
(* WebSocketService (services/realtime.ts).  Every connect() constructs a  *)
(* WebSocket whose handlers close over the userId of that call; the        *)
(* sockets live on after this.socket points elsewhere.  A socket's open    *)
(* and close events run its handler in the same step.                      *)
(***************************************************************************)
maxReconnectAttempts == 5
reconnectDelay == 1000

MaxSockets == 6
MaxLive == 2
MaxQueue == 2

Users == {"u1"}
Messages == {[type |-> "subscribe_notifications", user_id |-> NoUser],
             [type |-> "mood_update", user_id |-> NoUser]}

Authenticate(userId) == [type |-> "authenticate", user_id |-> userId]

\* socket.readyState; a socket that has closed is no longer in sockets.
ReadyState(s) ==
    IF s \in DOMAIN sockets THEN sockets[s].readyState ELSE "CLOSED"

Pow2(n) == IF n <= 0 THEN 1 ELSE 2 ^ n

\* The reconnect condition letting one attempt more through.
ReconnectAllowedOnceMore == reconnectAttempts <= maxReconnectAttempts

\* this.reconnectAttempts < this.maxReconnectAttempts
ReconnectAllowed == reconnectAttempts < maxReconnectAttempts

\* this.reconnectDelay * Math.pow(2, this.reconnectAttempts - 1), taken
\* after the increment.
Delay(attempts) == reconnectDelay * Pow2(attempts - 1)

\* What send(message) does once the open handler has set isConnected:
\* "queue" when this.socket is null; else socket.send, which transmits on
\* an OPEN socket, throws InvalidStateError on a CONNECTING one and drops
\* the data on a CLOSING or CLOSED one.
SendWhenConnected ==
    IF socket = 0 THEN "queue"
    ELSE CASE ReadyState(socket) = "OPEN" -> "sent"
           [] ReadyState(socket) = "CONNECTING" -> "throws"
           [] OTHER -> "dropped"

\* this.socket = new WebSocket(...) with its handlers.
NewSocket(userId) ==
    /\ created < MaxSockets
    /\ Cardinality(DOMAIN sockets) < MaxLive
    /\ created' = created + 1
    /\ socket' = created + 1
    /\ sockets' = [s \in DOMAIN sockets \cup {created + 1} |->
                     IF s = created + 1
                     THEN [readyState |-> "CONNECTING", userId |-> userId]
                     ELSE sockets[s]]

\* The caller's connect(userId).
connect(userId) ==
    /\ ~hung
    /\ NewSocket(userId)
    /\ caller' = [disconnected |-> FALSE, userId |-> userId, since |-> created + 1]
    /\ step' = Quiet("connect")
    /\ UNCHANGED <<isConnected, reconnectAttempts, messageQueue, timers, hung,
                   scheduled>>
    /\ UNCHANGED exceptWebSocket

\* The callback of attemptReconnect's setTimeout: this.connect().
ReconnectTimerFires ==
    /\ ~hung
    /\ timers > 0
    /\ timers' = timers - 1
    /\ NewSocket(NoUser)
    /\ step' = Quiet("timer")
    /\ UNCHANGED <<isConnected, reconnectAttempts, messageQueue, hung, caller,
                   scheduled>>
    /\ UNCHANGED exceptWebSocket

\* The caller's disconnect().
disconnect ==
    /\ ~hung
    /\ IF socket # 0
       THEN /\ sockets' = [s \in DOMAIN sockets |->
                             IF s = socket
                             THEN [sockets[s] EXCEPT !.readyState = "CLOSING"]
                             ELSE sockets[s]]
            /\ socket' = 0
            /\ isConnected' = FALSE
       ELSE UNCHANGED <<socket, sockets, isConnected>>
    /\ caller' = [caller EXCEPT !.disconnected = TRUE]
    /\ step' = Quiet("disconnect")
    /\ UNCHANGED <<reconnectAttempts, messageQueue, timers, created, hung,
                   scheduled>>
    /\ UNCHANGED exceptWebSocket

\* The caller's send(message).
send(message) ==
    /\ ~hung
    /\ IF isConnected /\ socket # 0
       THEN /\ step' = [Quiet("send") EXCEPT
                           !.sent = IF SendWhenConnected = "sent"
                                    THEN <<message>> ELSE <<>>]
            /\ UNCHANGED messageQueue
       ELSE /\ Len(messageQueue) < MaxQueue
            /\ messageQueue' = Append(messageQueue, message)
            /\ step' = Quiet("queued")
    /\ UNCHANGED <<socket, sockets, isConnected, reconnectAttempts, timers,
                   created, hung, caller, scheduled>>
    /\ UNCHANGED exceptWebSocket

\* The messages the open handler passes to send, in order: authenticate if
\* the closure has a userId, then the queue (processMessageQueue).
OpenSends(userId) ==
    (IF userId # NoUser THEN <<Authenticate(userId)>> ELSE <<>>) \o messageQueue

\* Socket s opens: its onopen handler.  With this.socket null every send
\* queues the message again and processMessageQueue never ends; with
\* this.socket still CONNECTING the first send throws out of the handler.
SocketOpens(s) ==
    /\ ~hung
    /\ s \in DOMAIN sockets
    /\ sockets[s].readyState = "CONNECTING"
    /\ sockets' = [sockets EXCEPT ![s].readyState = "OPEN"]
    /\ isConnected' = TRUE
    /\ reconnectAttempts' = 0
    /\ scheduled' = 0
    /\ LET userId == sockets[s].userId
           toSend == OpenSends(userId)
           how == IF socket = s THEN "sent" ELSE SendWhenConnected
       IN CASE how = "sent" ->
                 /\ step' = [Quiet("open") EXCEPT !.sent = toSend,
                                                  !.emitted = {"connected"}]
                 /\ messageQueue' = <<>>
                 /\ UNCHANGED hung
            [] how = "dropped" ->
                 /\ step' = [Quiet("open") EXCEPT !.emitted = {"connected"}]
                 /\ messageQueue' = <<>>
                 /\ UNCHANGED hung
            [] how = "throws" ->
                 /\ step' = [Quiet("open") EXCEPT
                                !.emitted = IF toSend = <<>> THEN {"connected"} ELSE {}]
                 /\ messageQueue' = IF userId = NoUser /\ messageQueue # <<>>
                                    THEN Tail(messageQueue) ELSE messageQueue
                 /\ UNCHANGED hung
            [] how = "queue" ->
                 /\ step' = [Quiet("open") EXCEPT
                                !.emitted = IF toSend = <<>> THEN {"connected"} ELSE {}]
                 /\ messageQueue' = messageQueue
                 /\ hung' = (toSend # <<>>)
    /\ UNCHANGED <<socket, timers, created, caller>>
    /\ UNCHANGED exceptWebSocket

\* Socket s closes (the connection failed, was lost, or close() completed):
\* its onclose handler, with attemptReconnect.
SocketCloses(s) ==
    /\ ~hung
    /\ s \in DOMAIN sockets
    /\ sockets' = [t \in DOMAIN sockets \ {s} |-> sockets[t]]
    /\ isConnected' = FALSE
    /\ IF ReconnectAllowed
       THEN /\ reconnectAttempts' = reconnectAttempts + 1
            /\ timers' = timers + 1
            /\ scheduled' = scheduled + 1
            /\ step' = [Quiet("close") EXCEPT
                           !.emitted = {"disconnected"},
                           !.delay = Delay(reconnectAttempts + 1)]
       ELSE /\ step' = [Quiet("close") EXCEPT
                           !.emitted = {"disconnected", "maxReconnectAttemptsReached"}]
            /\ UNCHANGED <<reconnectAttempts, timers, scheduled>>
    /\ UNCHANGED <<socket, messageQueue, created, hung, caller>>
    /\ UNCHANGED exceptWebSocket

(***************************************************************************)
(* SpecWebSocket: one WebSocketService, its caller and the network.        *)
(***************************************************************************)
InitWebSocketSpec ==
    /\ BackendIdle
    /\ modal = ModalClosed("ConsentMoodModal")
    /\ InitModal
    /\ InitNotifications
    /\ InitWebSocket
    /\ InitFetch
    /\ InitCache

NextWebSocket ==
    \/ \E userId \in Users \cup {NoUser} : connect(userId)
    \/ ReconnectTimerFires
    \/ disconnect
    \/ \E message \in Messages : send(message)
    \/ \E s \in 1..MaxSockets : SocketOpens(s)
    \/ \E s \in 1..MaxSockets : SocketCloses(s)

SpecWebSocket == InitWebSocketSpec /\ [][NextWebSocket]_vars

(***************************************************************************)
(* SpecReconnect: the connection life cycle alone, no message submitted.   *)
(***************************************************************************)
NextReconnect ==
    \/ \E userId \in Users \cup {NoUser} : connect(userId)
    \/ ReconnectTimerFires
    \/ disconnect
    \/ \E s \in 1..MaxSockets : SocketOpens(s)
    \/ \E s \in 1..MaxSockets : SocketCloses(s)

SpecReconnect == InitWebSocketSpec /\ [][NextReconnect]_vars

\* C16: when a socket opens, the queued messages are transmitted once each
\* in the order they were submitted, after the authenticate message if
\* there is one, and the open handler leaves the queue empty.
C16_QueueFlushedOnOpen ==
    [][ step'.kind = "open" =>
          /\ messageQueue' = <<>>
          /\ \E userId \in Users \cup {NoUser} : step'.sent = OpenSends(userId) ]_vars

\* C17: from disconnect() until the caller's next connect(), no reconnect
\* is scheduled, no new socket is constructed and the service is not
\* connected.
C17_StaysDisconnected ==
    [][ (caller.disconnected /\ caller'.disconnected /\ step'.kind # "disconnect") =>
          /\ timers' <= timers
          /\ created' = created
          /\ ~isConnected' ]_vars

\* C18: reconnectAttempts stays within 0..5 and an open resets it to 0; at
\* most 5 reconnects are scheduled between two opens, the k-th with delay
\* 1000*2^(k-1) ms; a close with 5 attempts used emits
\* 'maxReconnectAttemptsReached' and schedules nothing.
C18_ReconnectBounded ==
    /\ [](reconnectAttempts \in 0..5 /\ scheduled \in 0..5)
    /\ [][ /\ step'.kind = "open" => reconnectAttempts' = 0
           /\ (step'.kind = "close" /\ reconnectAttempts < 5) =>
                 /\ scheduled' = scheduled + 1
                 /\ timers' = timers + 1
                 /\ step'.delay = 1000 * Pow2(scheduled' - 1)
                 /\ reconnectAttempts' = reconnectAttempts + 1
           /\ (step'.kind = "close" /\ reconnectAttempts = 5) =>
                 /\ "maxReconnectAttemptsReached" \in step'.emitted
                 /\ timers' = timers
                 /\ scheduled' = scheduled
                 /\ step'.delay = 0
           /\ step'.kind # "close" =>
                 "maxReconnectAttemptsReached" \notin step'.emitted ]_vars

\* The fifth reconnect was scheduled with delay 16000 ms, its socket has
\* closed too, and the close emitted 'maxReconnectAttemptsReached'.
C18_Witness ==
    /\ reconnectAttempts = 5
    /\ scheduled = 5
    /\ step.kind = "close"
    /\ "maxReconnectAttemptsReached" \in step.emitted
    /\ timers = 0
    /\ created = 6

\* The socket that opens in this step was constructed by the caller's last
\* connect call or after it.
OpensSinceConnect ==
    \E s \in DOMAIN sockets :
        /\ s >= caller.since
        /\ sockets[s].readyState = "CONNECTING"
        /\ sockets'[s].readyState = "OPEN"

\* C19: whenever the socket of the caller's last connect(userId), or of an
\* automatic reconnect after it, opens and that call carried a user id, the
\* first message sent is 'authenticate' with that id.
C19_AuthenticateFirst ==
    [][ (step'.kind = "open" /\ caller.userId # NoUser /\ OpensSinceConnect) =>
          /\ step'.sent # <<>>
          /\ step'.sent[1] = Authenticate(caller.userId) ]_vars

(***************************************************************************)
(* fetchWithRetry(url, options, retries = 3) of EnhancedApiService.  Every *)
(* caller leaves retries at its default.  An attempt ends in one of:       *)
(*   "ok"       fetch resolved, response.ok, response.json() resolved;     *)
(*   "badjson"  fetch resolved, response.ok, response.json() rejected;     *)
(*   "http"     fetch resolved with response.ok false;                     *)
(*   "network"  fetch rejected.                                            *)
(***************************************************************************)
retries == 3

Outcomes == {"ok", "badjson", "http", "network"}

\* The backoff not growing.
BackoffConstant(i) == 1000

\* 1000 * Math.pow(2, i)
Backoff(i) == 1000 * Pow2(i)

\* A caller invokes fetchWithRetry: let i = 0, the first fetch goes out.
FetchStart(k) ==
    /\ calls[k].pc \in {"idle", "resolved", "rejected"}
    /\ calls' = [calls EXCEPT ![k] = [NotCalled EXCEPT !.pc = "fetching"]]
    /\ UNCHANGED exceptFetch

\* The attempt of iteration i ends: return await response.json(), or the
\* catch block, which rethrows on the last iteration and else starts the
\* backoff timer.
AttemptSettles(k, outcome) ==
    /\ calls[k].pc = "fetching"
    /\ LET call == calls[k]
           n == call.attempts + 1
           responseOk == outcome \in {"ok", "badjson"}
           seen == [call EXCEPT !.attempts = n,
                                !.firstOk = IF @ = 0 /\ responseOk THEN n ELSE @]
       IN calls' = [calls EXCEPT ![k] =
            IF outcome = "ok"
            THEN [seen EXCEPT !.pc = "resolved", !.value = n]
            ELSE IF call.i = retries - 1
                 THEN [seen EXCEPT !.pc = "rejected",
                                   !.error = [attempt |-> n, kind |-> outcome]]
                 ELSE [seen EXCEPT !.pc = "waiting",
                                   !.error = [attempt |-> n, kind |-> outcome],
                                   !.waits = Append(@, Backoff(call.i))]]
    /\ UNCHANGED exceptFetch

\* The backoff timer fires: i++, i < retries, the next fetch goes out.
BackoffElapses(k) ==
    /\ calls[k].pc = "waiting"
    /\ calls[k].i + 1 < retries
    /\ calls' = [calls EXCEPT ![k].i = @ + 1, ![k].pc = "fetching"]
    /\ UNCHANGED exceptFetch

(***************************************************************************)
(* SpecFetch: two calls of fetchWithRetry in flight, each called again     *)
(* after it has settled.  Every fetch settles and every timer fires.       *)
(***************************************************************************)
InitFetchSpec ==
    /\ BackendIdle
    /\ modal = ModalClosed("ConsentMoodModal")
    /\ InitModal
    /\ InitNotifications
    /\ InitWebSocket
    /\ InitFetch
    /\ InitCache

NextFetch ==
    \E k \in FetchCalls :
        \/ FetchStart(k)
        \/ \E outcome \in Outcomes : AttemptSettles(k, outcome)
        \/ BackoffElapses(k)

FetchProgress ==
    \A k \in FetchCalls :
        /\ WF_vars(\E outcome \in Outcomes : AttemptSettles(k, outcome))
        /\ WF_vars(BackoffElapses(k))

SpecFetch == InitFetchSpec /\ [][NextFetch]_vars /\ FetchProgress

Settled(k) == calls[k].pc \in {"resolved", "rejected"}

MaxTicks == 5

MaxInFlight == 1

\* The ttlMs argument each getter passes to setCache.
ttlMs(g) ==
    CASE g = "getBurnoutScores" -> 60000
      [] g = "getTrends" -> 120000
      [] g = "getTeamAnalytics" -> 300000

\* The clock is read in steps of the shortest TTL.
Tick == ttlMs("getBurnoutScores")

\* The JSON values the server answers with; "0" stands for the falsy ones.
Payloads == {"d1", "0"}

\* The values `if (cached)` takes for false.
Falsy == {"null", "undefined", "0"}

\* The object getFallbackTeamAnalytics builds.
Fallback == "fallback"

\* key.includes(pattern) for the key getCacheKey gives the getter's url.
KeyIncludes(g, pattern) ==
    \/ g = "getTrends" /\ pattern = "/trends"
    \/ g = "getTeamAnalytics" /\ pattern = "/analytics"

\* An entry served up to and including the instant its TTL is reached.
FreshAtTtl(cached) ==
    /\ cached # NoEntry
    /\ now - cached.timestamp <= cached.ttl

\* cached && Date.now() - cached.timestamp < cached.ttl
Fresh(cached) ==
    /\ cached # NoEntry
    /\ now - cached.timestamp < cached.ttl

\* getFromCache(key): the value it returns and the cache it leaves.
getFromCache(key) ==
    IF Fresh(cache[key])
    THEN [value |-> cache[key].data, cache |-> cache]
    ELSE [value |-> "null", cache |-> [cache EXCEPT ![key] = NoEntry]]

\* setCache(key, data, ttlMs) on the cache c.
setCache(c, key, data, ttl) ==
    [c EXCEPT ![key] = [data |-> data, timestamp |-> now, ttl |-> ttl]]

\* clearCacheByPattern(pattern) on the cache c.
clearCacheByPattern(c, pattern) ==
    [g \in Getters |-> IF KeyIncludes(g, pattern) THEN NoEntry ELSE c[g]]

InFlightTotal ==
    inFlight["getBurnoutScores"] + inFlight["getTrends"]
        + inFlight["getTeamAnalytics"]

\* A getter is called: it returns what getFromCache gave if that is truthy,
\* and else goes on to await fetchWithRetry.
Get(g) ==
    LET looked == getFromCache(g)
        seen == [kind |-> "cache", getter |-> g, data |-> looked.value,
                 found |-> cache[g] # NoEntry,
                 age |-> IF cache[g] # NoEntry
                         THEN now - cache[g].timestamp ELSE 0]
    IN /\ cache' = looked.cache
       /\ IF looked.value \notin Falsy
          THEN /\ got' = seen
               /\ UNCHANGED inFlight
          ELSE /\ InFlightTotal < MaxInFlight
               /\ got' = [seen EXCEPT !.kind = "miss", !.data = "undefined"]
               /\ inFlight' = [inFlight EXCEPT ![g] = @ + 1]
       /\ UNCHANGED <<now, exceptCache>>

\* fetchWithRetry resolves with data: setCache, return data.
FetchResolves(g, data) ==
    /\ inFlight[g] > 0
    /\ inFlight' = [inFlight EXCEPT ![g] = @ - 1]
    /\ cache' = setCache(cache, g, data, ttlMs(g))
    /\ got' = [kind |-> "network", getter |-> g, data |-> data,
               found |-> TRUE, age |-> now - cache'[g].timestamp]
    /\ UNCHANGED <<now, exceptCache>>

\* fetchWithRetry rejects: getTeamAnalytics catches and returns the
\* fallback object, the other two getters reject.
FetchRejects(g) ==
    /\ inFlight[g] > 0
    /\ inFlight' = [inFlight EXCEPT ![g] = @ - 1]
    /\ got' = IF g = "getTeamAnalytics"
              THEN [Nothing("fallback") EXCEPT !.getter = g, !.data = Fallback]
              ELSE [Nothing("rejected") EXCEPT !.getter = g]
    /\ UNCHANGED <<cache, now, exceptCache>>

\* getMood after its fetchWithRetry resolved: the related caches go.
getMoodClears ==
    /\ cache' = clearCacheByPattern(clearCacheByPattern(cache, "/trends"),
                                    "/analytics")
    /\ got' = Nothing("getMood")
    /\ UNCHANGED <<now, inFlight, exceptCache>>

\* clearAllCache(): this.cache.clear()
clearAllCache ==
    /\ cache' = [g \in Getters |-> NoEntry]
    /\ got' = Nothing("clearAllCache")
    /\ UNCHANGED <<now, inFlight, exceptCache>>

\* Time passes.
TimePasses ==
    /\ now < MaxTicks * Tick
    /\ now' = now + Tick
    /\ got' = Nothing("tick")
    /\ UNCHANGED <<cache, inFlight, exceptCache>>

(***************************************************************************)
(* SpecCache: the three getters called at any time, up to MaxInFlight      *)
(* fetches outstanding, over MaxTicks readings of the clock.               *)
(***************************************************************************)
InitCacheSpec ==
    /\ BackendIdle
    /\ modal = ModalClosed("ConsentMoodModal")
    /\ InitModal
    /\ InitNotifications
    /\ InitWebSocket
    /\ InitFetch
    /\ InitCache

NextCache ==
    \/ \E g \in Getters : Get(g)
    \/ \E g \in Getters : \E data \in Payloads : FetchResolves(g, data)
    \/ \E g \in Getters : FetchRejects(g)
    \/ getMoodClears
    \/ clearAllCache
    \/ TimePasses

SpecCache == InitCacheSpec /\ [][NextCache]_vars

\* C21: what a getter returns from the cache or from the network was stored
\* less than the getter's TTL ago; a getter that is called returns from the
\* cache only the data stored under its key, and only while
\* now - timestamp < TTL; when the entry is missing or has reached its TTL,
\* the call leaves no entry under the key and goes on to a network fetch.
C21_NeverStale ==
    /\ [](got.kind \in {"cache", "network"} => got.age < ttlMs(got.getter))
    /\ [][\A g \in Getters :
            (got'.getter = g /\ got'.kind \in {"cache", "miss"}) =>
                LET cached == cache[g]
                    expired == \/ cached = NoEntry
                               \/ now - cached.timestamp >= ttlMs(g)
                IN /\ got'.kind = "cache" =>
                        /\ ~expired
                        /\ got'.data = cached.data
                        /\ cache' = cache
                   /\ expired =>
                        /\ got'.kind = "miss"
                        /\ cache'[g] = NoEntry
                        /\ inFlight'[g] = inFlight[g] + 1]_vars

\* getBurnoutScores was called exactly 60 s after its entry was stored:
\* the entry is gone and the fetch is under way.
C21_Witness ==
    /\ got.kind = "miss"
    /\ got.getter = "getBurnoutScores"
    /\ got.found
    /\ got.age = ttlMs("getBurnoutScores")
    /\ cache["getBurnoutScores"] = NoEntry
    /\ inFlight["getBurnoutScores"] > 0

====
